---------------------------- MODULE Spec2Model ----------------------------
(***************************************************************************)
(* Model of src/app.py: the quote calculator (calculate_estimated_quote)  *)
(* and the order lifecycle kept in the SQLite table `orders`              *)
(* (order_briefing, handle_payment_route), together with the per-request  *)
(* connection handling (get_db, close_connection) and the bootstrap route *)
(* (init_db_route).                                                       *)
(*                                                                         *)
(* Strings are sequences of one-character strings, so that len(), lower(),*)
(* replace(), title() and the substring test are computed, not assumed.   *)
(* A value that may be Python's None is wrapped: None is <<>> and the     *)
(* string s is <<s>>.                                                     *)
(***************************************************************************)
EXTENDS Integers, Sequences, FiniteSets, TLC

VARIABLES
    tableExists,   \* the table `orders` exists in orders.db
    orders,        \* the committed rows of `orders`, keyed by order_id
    pc,            \* "idle" | "view" | "teardown": where the current request is
    req,           \* the request being served (NoReq when none)
    g_database,    \* g._database of the request's application context
    openConns,     \* number of sqlite3 connections currently open
    opened,        \* number of connections opened since the request began
    fetched,       \* what cursor.fetchone() returned in handle_payment_route
    raised,        \* the exception raised inside the last view, if any
    outcome,       \* what the last view returned (or "unhandled_exception")
    quoteArgs,     \* arguments of a direct call of calculate_estimated_quote
    quoteResult    \* its return value, wrapped (None before the call)

vars == <<tableExists, orders, pc, req, g_database, openConns, opened,
          fetched, raised, outcome, quoteArgs, quoteResult>>

appVars == <<tableExists, orders, pc, req, g_database, openConns, opened,
             fetched, raised, outcome>>

---------------------------------------------------------------------------
(* Optional values and Python truthiness                                   *)

None == <<>>

Some(v) == <<v>>

Val(o) == o[1]

\* bool(o) for o a str or None: None and "" are falsy
Truthy(o) == o # None /\ Val(o) # <<>>

---------------------------------------------------------------------------
(* Characters and the str methods the program uses                         *)

UpperChars == <<"A","B","C","D","E","F","G","H","I","J","K","L","M",
                "N","O","P","Q","R","S","T","U","V","W","X","Y","Z">>

LowerChars == <<"a","b","c","d","e","f","g","h","i","j","k","l","m",
                "n","o","p","q","r","s","t","u","v","w","x","y","z">>

IsUpper(c) == \E i \in 1..Len(UpperChars) : UpperChars[i] = c

IsLower(c) == \E i \in 1..Len(LowerChars) : LowerChars[i] = c

IsCased(c) == IsUpper(c) \/ IsLower(c)

LowerChar(c) ==
    IF IsUpper(c)
    THEN LowerChars[CHOOSE i \in 1..Len(UpperChars) : UpperChars[i] = c]
    ELSE c

UpperChar(c) ==
    IF IsLower(c)
    THEN UpperChars[CHOOSE i \in 1..Len(LowerChars) : LowerChars[i] = c]
    ELSE c

\* str.lower()
StrLower(s) == [i \in 1..Len(s) |-> LowerChar(s[i])]

\* str.replace(a, b) for single characters a, b
StrReplaceChar(s, a, b) == [i \in 1..Len(s) |-> IF s[i] = a THEN b ELSE s[i]]

\* str.title(): a cased character is upper-cased when it follows an uncased
\* character (or starts the string) and lower-cased otherwise
StrTitle(s) ==
    [i \in 1..Len(s) |->
        IF i = 1 \/ ~IsCased(s[i-1]) THEN UpperChar(s[i]) ELSE LowerChar(s[i])]

\* `needle in hay`
StrContains(hay, needle) ==
    \E i \in 0..(Len(hay) - Len(needle)) :
        \A j \in 1..Len(needle) : hay[i + j] = needle[j]

\* 'x' * n
Desc(n) == [i \in 1..n |-> "x"]

S_website == <<"w","e","b","s","i","t","e">>

S_software == <<"s","o","f","t","w","a","r","e">>

S_it_solution == <<"i","t","_","s","o","l","u","t","i","o","n">>

S_consultation == <<"c","o","n","s","u","l","t","a","t","i","o","n">>

S_urgent == <<"u","r","g","e","n","t">>

---------------------------------------------------------------------------
(* Python floats (IEEE-754 binary64) as far as the quote needs them.       *)
(* Every float the function computes lies within a few units in the last   *)
(* place of an integer, so a float is the record [n, f] standing for       *)
(* n + f * 2^-41 with n, f >= 0 integers (2^-41 is the spacing of floats   *)
(* in [2048, 4096), the lowest binade a multiplied price falls in).        *)

Pow2(k) == IF k = 0 THEN 1 ELSE 2 ^ k

\* floor(log2(n)) for n >= 1
Log2Floor(n) == CHOOSE e \in 0..30 : Pow2(e) <= n /\ n < 2 * Pow2(e)

\* round-half-to-even of the fraction a / b (a >= 0, b > 0)
RoundHalfEven(a, b) ==
    LET q == a \div b
        r2 == 2 * (a % b)
    IN  IF r2 < b THEN q
        ELSE IF r2 > b THEN q + 1
        ELSE IF q % 2 = 0 THEN q ELSE q + 1

\* spacing of floats around n >= 2048, in units of 2^-41
UlpUnits(n) == Pow2(Log2Floor(n) - 11)

FloatOfInt(n) == [n |-> n, f |-> 0]

\* base * 1.25 for an int base: 1.25 is a float exactly, and the product
\* 5*base/4 of a base divisible by 4 is an integer below 2^53, hence exact
Mul125(base) == FloatOfInt((base * 5) \div 4)

\* base * 1.10 for an int base divisible by 10.  The float written 1.10 is
\* (11 * 2^52 + 4) / (10 * 2^52), so the exact product is
\* B + (4*base/10) * 2^-52 with B = 11*base/10; the result is that value
\* rounded half-to-even to the floats around B, whose spacing is 2^(e-52),
\* e = floor(log2 B): B + k * 2^(e-52) with k = round((2*base) / (5*2^e))
Mul110(base) ==
    LET B == (base * 11) \div 10
        e == Log2Floor(B)
        k == RoundHalfEven(2 * base, 5 * Pow2(e))
    IN  [n |-> B, f |-> k * Pow2(e - 11)]

\* x + 1500 for a float x: exact sum, rounded to the floats around the sum
AddRush(x) ==
    LET s == x.n + 1500
        u == IF x.f = 0 THEN 1 ELSE UlpUnits(s)
    IN  [n |-> s, f |-> RoundHalfEven(x.f, u) * u]

\* round(x / 500) with a tie always going up
PyRoundDiv500_TiesUp(x) == (x.n + 250) \div 500

\* round(x / 500): x / 500 is the float nearest the quotient, and round()
\* rounds that float half-to-even.  With x = 500*k + r + f*2^-41 the float
\* quotient is exactly k + 0.5 only if r = 250 and the excess f*2^-41/500
\* is below half the float spacing 2^(eq-52) at k (eq = floor(log2 k)).
PyRoundDiv500(x) ==
    LET k == x.n \div 500
        r == x.n % 500
        tie == /\ r = 250
               /\ \/ x.f = 0
                  \/ k >= 1 /\ x.f * 4096 < 500 * Pow2(Log2Floor(k))
    IN  IF r < 250 THEN k
        ELSE IF tie THEN (IF k % 2 = 0 THEN k ELSE k + 1)
        ELSE k + 1

---------------------------------------------------------------------------
(* calculate_estimated_quote                                               *)

BasePrice(project_type) ==
    IF project_type = S_website THEN 8000
    ELSE IF project_type = S_software THEN 15000
    ELSE IF project_type = S_it_solution THEN 5000
    ELSE IF project_type = S_consultation THEN 2000
    ELSE 7500

\* lines 80-83: the complexity modifier
Complexity(base, description) ==
    IF Len(description) > 500 THEN Mul125(base)
    ELSE IF Len(description) > 250 THEN Mul110(base)
    ELSE FloatOfInt(base)

\* line 86: "urgent" in (timeline or "").lower()
IsUrgent(timeline) ==
    StrContains(StrLower(IF Truthy(timeline) THEN Val(timeline) ELSE <<>>),
                S_urgent)

\* the rush fee added before the complexity modifier is applied
calculate_estimated_quote_RushFirst(project_type, description, timeline) ==
    LET base == BasePrice(project_type) + (IF IsUrgent(timeline) THEN 1500 ELSE 0)
    IN  PyRoundDiv500(Complexity(base, description)) * 500

\* project_type and description are strings, timeline a string or None
calculate_estimated_quote(project_type, description, timeline) ==
    LET price0 == Complexity(BasePrice(project_type), description)
        price1 == IF IsUrgent(timeline) THEN AddRush(price0) ELSE price0
    IN  PyRoundDiv500(price1) * 500


---------------------------------------------------------------------------
(* Bounds and the inputs the requests are drawn from                       *)

\* number of distinct values uuid4()[:8].upper() can take in the model
NumKeys == 2

\* description lengths are taken within Slack of each pricing threshold
Slack == 2

OrderKeys == 1..NumKeys

S_email == <<"a","@","b">>

S_logo == <<"l","o","g","o"," ","a","r","t">>

S_Urgent == <<"U","r","g","e","n","t">>

S_card == <<"c","a","r","d">>

S_budget == <<"5","k">>

S_NA == <<"N","/","A">>

S_PENDING == <<"P","E","N","D","I","N","G">>

S_PAID == <<"P","A","I","D">>

\* form fields as request.form.get() returns them: None when absent
Forms ==
    [email          : {None, Some(<<>>), Some(S_email)},
     project_type   : {Some(<<>>), Some(S_it_solution)},
     budget         : {Some(S_budget)},
     timeline       : {None, Some(S_Urgent)},
     description    : {None, Some(Desc(251))},
     payment_method : {None}]

PaymentForms ==
    [email          : {None},
     project_type   : {None},
     budget         : {None},
     timeline       : {None},
     description    : {None},
     payment_method : {None, Some(S_card)}]

EmptyForm ==
    [email |-> None, project_type |-> None, budget |-> None,
     timeline |-> None, description |-> None, payment_method |-> None]

NoReq == [route |-> "none", method |-> "GET", order_id |-> 0, form |-> EmptyForm]

Requests ==
    {[route |-> "order", method |-> "GET", order_id |-> 0, form |-> EmptyForm]}
    \cup {[route |-> "order", method |-> "POST", order_id |-> 0, form |-> f] :
             f \in Forms}
    \cup {[route |-> "payment", method |-> "GET", order_id |-> k, form |-> EmptyForm] :
             k \in OrderKeys}
    \cup {[route |-> "payment", method |-> "POST", order_id |-> k, form |-> f] :
             k \in OrderKeys, f \in PaymentForms}
    \cup {[route |-> "init_db", method |-> "GET", order_id |-> 0, form |-> EmptyForm]}
    \cup {[route |-> "page", method |-> "GET", order_id |-> 0, form |-> EmptyForm]}

\* the database operation of a view at which sqlite3 raises OperationalError
\* (unable to open the file, database locked, disk I/O error); "none" when
\* the storage works
Faults == {"none", "connect", "execute", "execute2", "commit"}

---------------------------------------------------------------------------
(* The store connection of an application context                          *)
(* A context is [g, open, opened, err]: g._database ("unset" is the        *)
(* missing attribute), the connections open, the connections opened since *)
(* the request began, and whether sqlite3.connect raised.                  *)

Ctx(g, open, n) == [g |-> g, open |-> open, opened |-> n, err |-> FALSE]

\* the new connection is returned without being kept in g._database
get_db_NotKept(c, canConnect) ==
    IF c.g # "unset" THEN c
    ELSE IF ~canConnect THEN [c EXCEPT !.err = TRUE]
    ELSE [c EXCEPT !.open = @ + 1, !.opened = @ + 1]

get_db(c, canConnect) ==
    IF c.g # "unset" THEN c
    ELSE IF ~canConnect THEN [c EXCEPT !.err = TRUE]
    ELSE [c EXCEPT !.g = "open", !.open = @ + 1, !.opened = @ + 1]

close_connection(c) ==
    IF c.g = "open" THEN [c EXCEPT !.g = "closed", !.open = @ - 1] ELSE c

---------------------------------------------------------------------------
(* The table `orders`                                                      *)

\* INSERT fails on an order_id that is already a row (order_id PRIMARY KEY)
PrimaryKeyTaken(rows, key) == key \in DOMAIN rows

\* a column the INSERT does not name is NULL
DefaultPaymentMethod == None

\* line 169: the tuple bound to the INSERT
OrderRow(key, form, quote) ==
    [order_id       |-> key,
     project_type   |-> StrTitle(StrReplaceChar(Val(form.project_type), "_", " ")),
     client_email   |-> form.email,
     description    |-> form.description,
     quote          |-> quote,
     status         |-> S_PENDING,
     budget         |-> form.budget,
     timeline       |-> form.timeline,
     payment_method |-> DefaultPaymentMethod]

InsertRow(rows, row) ==
    [k \in DOMAIN rows \cup {row.order_id} |->
        IF k = row.order_id THEN row ELSE rows[k]]

\* the two bound values in the wrong order: (payment_method, 'PAID', order_id)
UpdatePaid_Swapped(rows, order_id, payment_method) ==
    [k \in DOMAIN rows |->
        IF k = order_id
        THEN [rows[k] EXCEPT !.status = payment_method,
                             !.payment_method = Some(S_PAID)]
        ELSE rows[k]]

\* the UPDATE without its WHERE clause
UpdatePaid_NoWhere(rows, order_id, payment_method) ==
    [k \in DOMAIN rows |->
        [rows[k] EXCEPT !.status = S_PAID,
                        !.payment_method = Some(payment_method)]]

\* lines 208-209: UPDATE orders SET status = 'PAID', payment_method = ?
\*                WHERE order_id = ?
UpdatePaid(rows, order_id, payment_method) ==
    [k \in DOMAIN rows |->
        IF k = order_id
        THEN [rows[k] EXCEPT !.status = S_PAID,
                             !.payment_method = Some(payment_method)]
        ELSE rows[k]]

\* lines 194-198: SELECT ... WHERE order_id = ?, then cursor.fetchone()
FetchOne(rows, order_id) ==
    IF order_id \in DOMAIN rows THEN Some(rows[order_id]) ELSE None

\* the missing-order check left out
NotFound_Never(order_data) == FALSE

\* line 200: `if not order_data`
NotFound(order_data) == order_data = None

\* the email left out of the presence check
Validate_NoEmail(form) ==
    Truthy(form.project_type) /\ Truthy(form.description)

\* line 154: all([email, project_type_raw, description])
Validate(form) ==
    Truthy(form.email) /\ Truthy(form.project_type) /\ Truthy(form.description)

\* line 205: request.form.get('payment_method', 'N/A')
PaymentMethodOf(form) ==
    IF form.payment_method = None THEN S_NA ELSE Val(form.payment_method)

\* what executing schema.sql does to the table: it exists afterwards, and
\* the rows already stored are kept
SchemaScript(rows) == [exists |-> TRUE, rows |-> rows]

---------------------------------------------------------------------------
(* Requests                                                                *)

NoRows == [k \in {} |-> 0]

AppInit ==
    /\ tableExists = FALSE
    /\ orders = NoRows
    /\ pc = "idle"
    /\ req = NoReq
    /\ g_database = "unset"
    /\ openConns = 0
    /\ opened = 0
    /\ fetched = "n/a"
    /\ raised = "None"
    /\ outcome = "none"

Init ==
    /\ AppInit
    /\ quoteArgs = None
    /\ quoteResult = None

\* a request arrives: Flask pushes a fresh application context
Dispatch ==
    /\ pc = "idle"
    /\ \E r \in Requests : req' = r
    /\ pc' = "view"
    /\ g_database' = "unset"
    /\ opened' = 0
    /\ fetched' = "n/a"
    /\ raised' = "None"
    /\ outcome' = "none"
    /\ UNCHANGED <<tableExists, orders, openConns, quoteArgs, quoteResult>>

\* the view ends: its result, the exception it raised and its context
Finish(c, rows, exc, out) ==
    /\ pc' = "teardown"
    /\ g_database' = c.g
    /\ openConns' = c.open
    /\ opened' = c.opened
    /\ orders' = rows
    /\ raised' = exc
    /\ outcome' = out
    /\ UNCHANGED <<req, quoteArgs, quoteResult>>

\* index, services, about, contact: no store access
Page ==
    /\ pc = "view"
    /\ req.route = "page"
    /\ Finish(Ctx(g_database, openConns, opened), orders, "None", "render_page")
    /\ UNCHANGED <<tableExists, fetched>>

\* lines 158-179 of order_briefing, after validation passed
SaveOrder(key, fault) ==
    LET form  == req.form
        quote == calculate_estimated_quote(Val(form.project_type),
                                           Val(form.description), form.timeline)
        c     == get_db(Ctx(g_database, openConns, opened), fault # "connect")
    IN  IF c.err \/ ~tableExists \/ fault = "execute"
        THEN Finish(c, orders, "OperationalError", "db_error")
        ELSE IF PrimaryKeyTaken(orders, key)
        THEN Finish(c, orders, "IntegrityError", "unhandled_exception")
        ELSE IF fault = "commit"
        THEN Finish(c, orders, "OperationalError", "db_error")
        ELSE Finish(c, InsertRow(orders, OrderRow(key, form, quote)),
                    "None", "redirect_payment")

order_briefing ==
    /\ pc = "view"
    /\ req.route = "order"
    /\ UNCHANGED <<tableExists, fetched>>
    /\ IF req.method # "POST"
       THEN Finish(Ctx(g_database, openConns, opened), orders, "None",
                   "render_order_form")
       ELSE IF ~Validate(req.form)
       THEN Finish(Ctx(g_database, openConns, opened), orders, "None",
                   "validation_error")
       ELSE \E key \in OrderKeys, fault \in Faults : SaveOrder(key, fault)

handle_payment_route ==
    /\ pc = "view"
    /\ req.route = "payment"
    /\ UNCHANGED tableExists
    /\ \E fault \in Faults :
        LET c     == get_db(Ctx(g_database, openConns, opened), fault # "connect")
            order_data == FetchOne(orders, req.order_id)
        IN  IF c.err \/ ~tableExists \/ fault = "execute"
            THEN /\ fetched' = "n/a"
                 /\ Finish(c, orders, "OperationalError", "unhandled_exception")
            ELSE /\ fetched' = IF order_data = None THEN "none" ELSE "row"
                 /\ IF NotFound(order_data)
                    THEN Finish(c, orders, "None", "not_found_redirect_order")
                    ELSE IF req.method # "POST"
                    THEN Finish(c, orders, "None", "render_payment")
                    ELSE IF fault \in {"execute2", "commit"}
                    THEN Finish(c, orders, "OperationalError",
                                "unhandled_exception")
                    ELSE Finish(c, UpdatePaid(orders, req.order_id,
                                              PaymentMethodOf(req.form)),
                                "None", "redirect_index")

\* init_db runs in an application context of its own, torn down on leaving
\* the `with` block; every exception is caught and reported as failure
init_db_route ==
    /\ pc = "view"
    /\ req.route = "init_db"
    /\ UNCHANGED fetched
    /\ \E schemaFile \in BOOLEAN, fault \in Faults :
        LET inner == get_db(Ctx("unset", openConns, opened), fault # "connect")
            after == close_connection(inner)
            outer == Ctx(g_database, after.open, after.opened)
            ok    == ~inner.err /\ schemaFile /\ fault \notin {"execute", "commit"}
            db    == SchemaScript(orders)
        IN  IF ok
            THEN /\ tableExists' = db.exists
                 /\ Finish(outer, db.rows, "None", "init_ok")
            ELSE /\ UNCHANGED tableExists
                 /\ Finish(outer, orders, "None", "init_failed")

\* teardown_appcontext: runs when the request ends, whatever the view did
Teardown ==
    /\ pc = "teardown"
    /\ LET c == close_connection(Ctx(g_database, openConns, opened))
       IN  /\ g_database' = c.g
           /\ openConns' = c.open
    /\ pc' = "idle"
    /\ req' = NoReq
    /\ UNCHANGED <<tableExists, orders, opened, fetched, raised, outcome,
                   quoteArgs, quoteResult>>

Next ==
    \/ Dispatch
    \/ Page
    \/ order_briefing
    \/ handle_payment_route
    \/ init_db_route
    \/ Teardown

Spec == Init /\ [][Next]_vars

---------------------------------------------------------------------------
(* Direct calls of calculate_estimated_quote                               *)

S_Website == <<"W","e","b","s","i","t","e">>

S_It_Solution == <<"I","t"," ","S","o","l","u","t","i","o","n">>

QuoteTypes ==
    {S_website, S_software, S_it_solution, S_consultation,
     S_logo, <<>>, S_Website, S_It_Solution}

QuoteLengths ==
    {0, 1} \cup ((250 - Slack)..(250 + Slack))
           \cup ((500 - Slack)..(500 + Slack)) \cup {600}

\* timelines that contain "urgent" in some letter case
UrgentTimelines ==
    {Some(S_urgent), Some(S_Urgent),
     Some(<<"U","R","G","E","N","T">>),
     Some(<<"n","o","t"," ","u","R","g","E","n","T","!">>)}

\* timelines that do not (None is the absent field)
CalmTimelines ==
    {None, Some(<<>>), Some(<<"u","r","g","e","n">>),
     Some(<<"u","r","g","e","n","_","t">>), Some(<<"2"," ","w","e","e","k","s">>)}

QuoteInputs ==
    [project_type : QuoteTypes,
     description  : {Desc(n) : n \in QuoteLengths},
     timeline     : UrgentTimelines \cup CalmTimelines]

InitQuote ==
    /\ AppInit
    /\ quoteArgs \in {Some(a) : a \in QuoteInputs}
    /\ quoteResult = None

CalcQuote ==
    /\ quoteArgs # None
    /\ quoteResult = None
    /\ quoteResult' = Some(calculate_estimated_quote(Val(quoteArgs).project_type,
                                                     Val(quoteArgs).description,
                                                     Val(quoteArgs).timeline))
    /\ UNCHANGED <<quoteArgs, appVars>>

NextQuote == CalcQuote

SpecQuote == InitQuote /\ [][NextQuote]_vars

---------------------------------------------------------------------------
(* The reference pricing rule, in exact integer arithmetic on hundredths   *)

RefBase(project_type) ==
    CASE project_type = S_website      -> 8000
      [] project_type = S_software     -> 15000
      [] project_type = S_it_solution  -> 5000
      [] project_type = S_consultation -> 2000
      [] OTHER                         -> 7500

\* 100 * (base * multiplier + surcharge)
RefRaw100(a) ==
    LET n    == Len(a.description)
        mult == IF n > 500 THEN 125 ELSE IF n > 250 THEN 110 ELSE 100
        rush == IF a.timeline \in UrgentTimelines THEN 150000 ELSE 0
    IN  RefBase(a.project_type) * mult + rush

\* nearest multiple of 500, a tie going to the larger multiple
RefRoundTiesUp(p100) == ((p100 + 25000) \div 50000) * 500

\* nearest multiple of 500, a tie going to the even multiple of 500
RefRoundTiesEven(p100) ==
    LET m == p100 \div 50000
        r == p100 % 50000
    IN  IF r < 25000 \/ (r = 25000 /\ m % 2 = 0) THEN m * 500 ELSE (m + 1) * 500

Called == quoteArgs # None /\ quoteResult # None

Unrecognized(project_type) ==
    project_type \notin {S_website, S_software, S_it_solution, S_consultation}

RawIs8250(a) ==
    /\ Unrecognized(a.project_type)
    /\ Len(a.description) >= 251
    /\ Len(a.description) <= 500
    /\ a.timeline \in CalmTimelines

---------------------------------------------------------------------------
(* The order lifecycle                                                     *)

Keys(rows) == DOMAIN rows

\* the view of the current step is a payment confirmation addressed to k
Confirming(k) ==
    pc = "view" /\ req.route = "payment" /\ req.method = "POST" /\ req.order_id = k

\* the view of the current step is an order submission
Submitting == pc = "view" /\ req.route = "order" /\ req.method = "POST"

\* C1: every order is created PENDING, no order is removed, and a status
\* changes only from PENDING to PAID; once PAID it stays PAID.
C1_StatusOnlyPendingToPaid ==
    [][/\ Keys(orders) \subseteq Keys(orders')
       /\ \A k \in Keys(orders') :
            IF k \in Keys(orders)
            THEN \/ orders'[k].status = orders[k].status
                 \/ orders[k].status = S_PENDING /\ orders'[k].status = S_PAID
            ELSE orders'[k].status = S_PENDING]_vars

\* a PAID order next to one submitted and still PENDING, a view just ended
C1_Witness ==
    /\ pc = "teardown"
    /\ \E k1, k2 \in Keys(orders) :
          orders[k1].status = S_PAID /\ orders[k2].status = S_PENDING

\* C2 as claimed: payment_method is unset while the order is PENDING, set
\* when it is PAID, and a PAID order's payment_method never changes.
C2_PaymentMethodFixedOncePaid ==
    [][\A k \in Keys(orders') :
          /\ orders'[k].status = S_PENDING => orders'[k].payment_method = None
          /\ orders'[k].status = S_PAID => orders'[k].payment_method # None
          /\ (k \in Keys(orders) /\ orders[k].status = S_PAID)
                => orders'[k].payment_method = orders[k].payment_method]_vars

\* C5 as claimed: a submission whose INSERT violates the primary key ends
\* in a handled storage-error outcome and leaves the stored orders as they
\* were.
C5_DuplicateKeyIsHandled ==
    [][(Submitting /\ raised' = "IntegrityError")
          => (outcome' = "db_error" /\ orders' = orders)]_vars

\* C6: a payment request (GET or POST) for an order_id that is not stored
\* changes no row, and when its lookup ran it ends in the NotFound outcome,
\* the redirect to the order form.
C6_UnknownOrderIsNotFound ==
    [][(pc = "view" /\ req.route = "payment" /\ req.order_id \notin Keys(orders))
          => /\ orders' = orders
             /\ fetched' # "row"
             /\ fetched' = "none" => outcome' = "not_found_redirect_order"]_vars

\* a confirmation for an unknown order_id was answered while orders exist
C6_Witness ==
    /\ pc = "teardown"
    /\ req.route = "payment"
    /\ req.method = "POST"
    /\ req.order_id \notin Keys(orders)
    /\ Keys(orders) # {}
    /\ fetched = "none"

FrameFields(row) ==
    <<row.order_id, row.project_type, row.client_email, row.description,
      row.budget, row.timeline, row.quote>>

\* C7: a new order's quote is calculate_estimated_quote of the raw submitted
\* project type, description and timeline; afterwards a row changes only by
\* a payment confirmation addressed to it, and then only in status and
\* payment_method.
C7_QuoteFixedAndPaymentFrame ==
    [][/\ \A k \in Keys(orders') \ Keys(orders) :
            /\ Submitting
            /\ orders'[k].quote =
                 calculate_estimated_quote(Val(req.form.project_type),
                                           Val(req.form.description),
                                           req.form.timeline)
            /\ orders'[k].description = req.form.description
            /\ orders'[k].timeline = req.form.timeline
       /\ \A k \in Keys(orders) :
            /\ k \in Keys(orders')
            /\ FrameFields(orders'[k]) = FrameFields(orders[k])
            /\ orders'[k] # orders[k] => Confirming(k)]_vars

\* a confirmation just paid one order while another order is stored, and
\* the paid order was priced on its raw type (it_solution: 5000 * 1.10)
C7_Witness ==
    /\ pc = "teardown"
    /\ req.route = "payment"
    /\ outcome = "redirect_index"
    /\ Cardinality(Keys(orders)) >= 2
    /\ orders[req.order_id].project_type = S_It_Solution
    /\ orders[req.order_id].quote = 5500

Present(field) == field # None /\ Len(Val(field)) > 0

AllPresent(form) ==
    Present(form.email) /\ Present(form.project_type) /\ Present(form.description)

\* C8: a submission missing email, project type or description is answered
\* with the validation error and stores nothing; rows are added only by a
\* submission in which all three are present.
C8_InvalidSubmissionStoresNothing ==
    [][/\ (Submitting /\ ~AllPresent(req.form))
            => (outcome' = "validation_error" /\ orders' = orders)
       /\ Keys(orders') # Keys(orders)
            => (Submitting /\ AllPresent(req.form))]_vars

\* a submission without description was rejected while orders are stored
C8_Witness ==
    /\ pc = "teardown"
    /\ req.route = "order"
    /\ req.method = "POST"
    /\ req.form.email # None
    /\ Truthy(req.form.project_type)
    /\ req.form.description = None
    /\ outcome = "validation_error"
    /\ Keys(orders) # {}

\* C9 as claimed: a storage failure during the lookup or the PAID update of
\* handle_payment_route ends in an error outcome the handler returns, never
\* in an exception leaving the handler.
C9_PaymentStorageFailureIsHandled ==
    (req.route = "payment" /\ raised = "OperationalError")
        => outcome # "unhandled_exception"

\* C10: a request opens at most one connection, a further get_db call in a
\* context that holds a connection opens none, and no connection is open
\* once the request has ended.
C10_ConnectionScopedToRequest ==
    /\ opened <= 1
    /\ openConns <= 1
    /\ g_database = "open"
          => get_db(Ctx(g_database, openConns, opened), TRUE)
               = Ctx(g_database, openConns, opened)
    /\ pc = "idle" => openConns = 0

\* a request whose view raised with its connection open has ended
C10_Witness ==
    /\ pc = "idle"
    /\ outcome = "unhandled_exception"
    /\ g_database = "closed"
    /\ opened = 1

=============================================================================
